---- MODULE Spec2Model ----
(***************************************************************************)
(* Model of mdv's request-routing and tree-navigation layer                *)
(* (src/src/mdv/server.py): the subtree resolver get_children, the         *)
(* dispatcher App.dispatch with its url_map, the handlers on_*, and the    *)
(* render helpers.  mdv.sv_state.MdViewerState (the Content Provider),     *)
(* the markdown converter and the templates are collaborators that are     *)
(* not part of server.py; the provider is modelled from its contract.      *)
(*                                                                         *)
(* Strings that the code takes apart (paths) are sequences of one-letter   *)
(* strings, so that "a//b/" is <<"a","/","/","b","/">> and str.split is    *)
(* computed, not assumed.                                                  *)
(***************************************************************************)
EXTENDS Naturals, Sequences, FiniteSets, TLC

VARIABLES
    disk,      \* the directory tree as it is on the filesystem right now
    tree,      \* MdViewerState's snapshot: what get_tree() returns
    prevTree,  \* the snapshot as it was when the last request arrived
    req,       \* the last request handed to the WSGI callable
    resp,      \* what the WSGI callable did with it (a response, or a raise)
    calls,     \* the collaborator calls the last request made, in order
    fnPath,    \* argument of the last direct call of get_children/render_tree
    fnResult,  \* what get_children returned in that call
    raised,    \* the exception raised inside dispatch's try block, if any
    pc,        \* position of the in-flight /v/<path> request (interleaved runs)
    isf,       \* what is_file answered to the in-flight request
    snaps      \* the snapshots that were current while that request was in flight

vars == <<disk, tree, prevTree, req, resp, calls, fnPath, fnResult, raised, pc, isf, snaps>>

----------------------------------------------------------------------------
(* Bounds *)

\* longest path string handed directly to get_children ("a//b/" has 5)
MaxPathLen == 5

\* longest <path:filename> of a request ("a/b" has 3)
MaxReqLen == 3

\* index requests of other clients that change the snapshot while one request is in flight
MaxRefreshes == 1

----------------------------------------------------------------------------
(* Paths and tree nodes *)

Letters == {"a", "b"}

Chars == Letters \cup {"/"}

RECURSIVE StringsUpTo(_)
StringsUpTo(n) ==
    IF n = 0 THEN {<<>>}
    ELSE LET shorter == StringsUpTo(n - 1)
         IN  shorter \cup {Append(s, c) : s \in {t \in shorter : Len(t) = n - 1}, c \in Chars}

\* node names: one segment, no separator
Names == {<<"a">>, <<"b">>}

\* the value under a node's "children" key: a list, null (None), or no key at all
ChildList(items) == [kind |-> "list", items |-> items]

ChildNull == [kind |-> "null", items |-> <<>>]

ChildAbsent == [kind |-> "absent", items |-> <<>>]

FileNode(name) == [type |-> "file", name |-> name, children |-> ChildAbsent]

DirNode(name, children) == [type |-> "directory", name |-> name, children |-> children]

\* node lists of at most two siblings with distinct names, in either order
ListsOf(nodes) ==
    {<<>>} \cup {<<n>> : n \in nodes}
           \cup {<<p[1], p[2]>> : p \in {q \in nodes \X nodes : q[1].name # q[2].name}}

\* leaves: files, and directories with an empty, a null or no child list
LeafNodes(withNull) ==
    {FileNode(n) : n \in Names}
    \cup {DirNode(n, c) : n \in Names,
                          c \in {ChildList(<<>>), ChildAbsent}
                                \cup (IF withNull THEN {ChildNull} ELSE {})}

InnerNodes(withNull) ==
    LeafNodes(withNull)
    \cup {DirNode(n, ChildList(l)) : n \in Names, l \in ListsOf(LeafNodes(withNull))}

RECURSIVE NodeCount(_)
NodeCount(items) ==
    IF items = <<>> THEN 0
    ELSE 1 + NodeCount(Head(items).children.items) + NodeCount(Tail(items))

\* the trees get_children is called on directly: every shape of at most
\* three nodes and two levels, null child lists included
FnTrees == {t \in ListsOf(InnerNodes(TRUE)) : NodeCount(t) <= 3}

----------------------------------------------------------------------------
(* get_children, server.py lines 38-57 *)

\* str.split("/"): the pieces between separators, empty pieces kept
RECURSIVE SplitFrom(_, _, _, _)
SplitFrom(path, i, cur, acc) ==
    IF i > Len(path) THEN Append(acc, cur)
    ELSE IF path[i] = "/" THEN SplitFrom(path, i + 1, <<>>, Append(acc, cur))
    ELSE SplitFrom(path, i + 1, Append(cur, path[i]), acc)

Split(path) == SplitFrom(path, 1, <<>>, <<>>)

IsNonEmpty(p) == Len(p) > 0

PartsKeepEmpty(path) == Split(path)

\* parts = [p for p in path.split("/") if p]
Parts(path) == SelectSeq(Split(path), IsNonEmpty)

\* results of get_children: a list, None, or an exception leaving the function
ListResult(items) == [kind |-> "list", items |-> items]

NoneResult == [kind |-> "none", items |-> <<>>]

TypeErrorResult == [kind |-> "TypeError", items |-> <<>>]

NotCalled == [kind |-> "notcalled", items |-> <<>>]

\* the first node named part, whatever its type (0: none)
FindAnyType(nodes, part) ==
    LET hits == {i \in 1..Len(nodes) : nodes[i].name = part}
    IN  IF hits = {} THEN 0 ELSE CHOOSE i \in hits : \A j \in hits : i <= j

FindDirIgnoringType(nodes, part) == FindAnyType(nodes, part)

\* the inner loop: the first node that is a directory named part (0: found stays None)
FindDir(nodes, part) ==
    LET hits == {i \in 1..Len(nodes) :
                    nodes[i].type = "directory" /\ nodes[i].name = part}
    IN  IF hits = {} THEN 0 ELSE CHOOSE i \in hits : \A j \in hits : i <= j

\* found.get("children", [])
GetChildrenKey(node) ==
    IF node.children.kind = "absent" THEN ChildList(<<>>) ELSE node.children

OrEmptyDropped(nodes) ==
    IF nodes.kind = "null" THEN NoneResult ELSE ListResult(nodes.items)

\* return nodes or []
OrEmpty(nodes) ==
    IF nodes.kind = "null" THEN ListResult(<<>>) ELSE ListResult(nodes.items)

\* the outer loop over parts; iterating a null child list raises TypeError
RECURSIVE Walk(_, _)
Walk(nodes, parts) ==
    IF parts = <<>> THEN OrEmpty(nodes)
    ELSE IF nodes.kind = "null" THEN TypeErrorResult
    ELSE LET i == FindDir(nodes.items, Head(parts))
         IN  IF i = 0 THEN NoneResult
             ELSE Walk(GetChildrenKey(nodes.items[i]), Tail(parts))

get_children(t, path) ==
    LET parts == Parts(path)
    IN  IF parts = <<>> THEN ListResult(t) ELSE Walk(ChildList(t), parts)

----------------------------------------------------------------------------
(* The Content Provider, mdv.sv_state.MdViewerState: not part of server.py. *)
(* Modelled from its contract: is_file, get_content, get_tree, refresh and  *)
(* search work on the provider's snapshot; refresh re-scans the disk.       *)

RECURSIVE NodesAt(_, _)
\* the node a sequence of segments addresses, by name: {} or {node}
NodesAt(items, segs) ==
    LET i == FindAnyType(items, Head(segs))
    IN  IF i = 0 THEN {}
        ELSE IF Len(segs) = 1 THEN {items[i]}
        ELSE IF items[i].type # "directory" THEN {}
        ELSE NodesAt(items[i].children.items, Tail(segs))

is_file(t, path) ==
    /\ Parts(path) # <<>>
    /\ \E n \in NodesAt(t, Parts(path)) : n.type = "file"

\* get_tree(): the current snapshot
get_tree(t) == t

\* refresh(): the snapshot becomes what a scan of the disk finds
refresh(d) == d

----------------------------------------------------------------------------
(* Responses and exceptions *)

NoExc == [exc |-> "none", status |-> 0, mimetype |-> "", tag |-> ""]

\* werkzeug's HTTP exceptions: each carries its status and renders its own
\* HTML page as its body
NotFoundExc ==
    [exc |-> "NotFound", status |-> 404, mimetype |-> "text/html", tag |-> "404 Not Found page"]

BadRequestExc ==
    [exc |-> "BadRequest", status |-> 400, mimetype |-> "text/html", tag |-> "400 Bad Request page"]

RequestRedirectExc ==
    [exc |-> "RequestRedirect", status |-> 308, mimetype |-> "text/html", tag |-> "Redirecting page"]

AttributeErrorExc ==
    [exc |-> "AttributeError", status |-> 0, mimetype |-> "", tag |-> ""]

TypeErrorExc == [exc |-> "TypeError", status |-> 0, mimetype |-> "", tag |-> ""]

HTTPExceptions == {"NotFound", "BadRequest", "RequestRedirect"}

\* a Response object: status, mimetype and what the body is made of
Response(status, mimetype, tag, template, prefix, root, items) ==
    [kind |-> "response", status |-> status, mimetype |-> mimetype, tag |-> tag,
     template |-> template, prefix |-> prefix, root |-> root, items |-> items,
     exc |-> NoExc]

\* an exception leaving the function
Raise(e) ==
    [kind |-> "raise", status |-> 0, mimetype |-> "", tag |-> e.exc,
     template |-> "", prefix |-> "", root |-> <<>>, items |-> <<>>, exc |-> e]

NoResponse ==
    [kind |-> "none", status |-> 0, mimetype |-> "", tag |-> "",
     template |-> "", prefix |-> "", root |-> <<>>, items |-> <<>>, exc |-> NoExc]

\* Response("Not found", status=404, mimetype="text/plain") of dispatch
DispatchNotFound == Response(404, "text/plain", "Not found", "", "", <<>>, <<>>)

TreeNotFoundAsPage == Response(404, "text/html", "Not found", "", "", <<>>, <<>>)

\* Response("Not found", status=404, mimetype="text/plain") of render_tree
TreeNotFound == Response(404, "text/plain", "Not found", "", "", <<>>, <<>>)

\* `return e`: the exception is the response, with its own status and body
ExceptionResponse(e) ==
    [kind |-> "response", status |-> e.status, mimetype |-> e.mimetype, tag |-> e.tag,
     template |-> "", prefix |-> "", root |-> <<>>, items |-> <<>>, exc |-> NoExc]

\* what a handler hands back: its outcome, the calls it made, the snapshot it leaves
Done(out, log, t) == [out |-> out, calls |-> log, tree |-> t]

----------------------------------------------------------------------------
(* Provider calls that can fail *)

\* get_content(path, raw): the file's content, NotFound when no such file
get_content(t, path, raw) ==
    IF is_file(t, path)
    THEN Response(200, IF raw THEN "text/plain" ELSE "text/html",
                  IF raw THEN "raw text" ELSE "file html", "", "", path, <<>>)
    ELSE Raise(NotFoundExc)

Queries == {"absent", "ok", "malformed"}

\* search(query): a result list, or a structured HTTP error for a query it rejects
search(query) ==
    IF query = "malformed" THEN Raise(BadRequestExc)
    ELSE Response(200, "application/json", "search results", "", "", <<>>, <<>>)

----------------------------------------------------------------------------
(* Render helpers, server.py lines 112-136 *)

render_markdown(template, content) ==
    Response(200, "text/html", content.tag, template, content.prefix,
             content.root, content.items)

TreeMd(items, prefix, root) ==
    [tag |-> "listing", prefix |-> prefix, root |-> root, items |-> items]

render_tree(t, template, prefix, filename) ==
    LET r == get_children(get_tree(t), filename)
        log == <<"get_tree", "get_children">>
    IN  IF r.kind = "TypeError" THEN Done(Raise(TypeErrorExc), log, t)
        ELSE IF r.kind = "none" THEN Done(TreeNotFound, log, t)
        ELSE Done(render_markdown(template, TreeMd(r.items, prefix, <<"/">> \o filename)),
                  log \o <<"tree.md", "MarkdownParser.parse", template>>, t)

render_file(t, template, filename) ==
    LET c == get_content(t, filename, FALSE)
    IN  IF c.kind = "raise" THEN Done(c, <<"get_content">>, t)
        ELSE Done(render_markdown(template,
                      [tag |-> "file html", prefix |-> "", root |-> filename, items |-> <<>>]),
                  <<"get_content", template>>, t)

Prepend(first, d) == Done(d.out, <<first>> \o d.calls, d.tree)

handle_common_no_file_check(t, filename, template, prefix) ==
    render_tree(t, template, prefix, filename)

handle_common(t, filename, template, prefix) ==
    IF is_file(t, filename)
    THEN Prepend("is_file", render_file(t, template, filename))
    ELSE Prepend("is_file", render_tree(t, template, prefix, filename))

----------------------------------------------------------------------------
(* Handlers, server.py lines 142-191 *)

on_home(t) ==
    Done(Response(302, "text/plain", "Location: /v", "", "", <<>>, <<>>), <<>>, t)

IndexPage(t, d, template, prefix) ==
    LET snapshot == get_tree(refresh(d))
    IN  Done(render_markdown(template, TreeMd(snapshot, prefix, <<"/">>)),
             <<"refresh", "get_tree", "tree.md", "MarkdownParser.parse", template>>,
             refresh(d))

on_index_read_before_refresh(t, d) ==
    Done(render_markdown("viewer.html", TreeMd(get_tree(t), "v", <<"/">>)),
         <<"get_tree", "refresh", "tree.md", "MarkdownParser.parse", "viewer.html">>,
         refresh(d))

on_index(t, d) == IndexPage(t, d, "viewer.html", "v")

on_index_mdplain(t, d) == IndexPage(t, d, "plain.html", "m")

on_dirtree(t) ==
    Done(Response(200, "application/json", "tree json", "", "", <<>>, get_tree(t)),
         <<"get_tree", "json.dumps">>, t)

on_search(t, query) ==
    LET s == search(query)
    IN  IF s.kind = "raise" THEN Done(s, <<"search">>, t)
        ELSE Done(s, <<"search", "json.dumps">>, t)

on_mdplain(t, filename) == handle_common(t, filename, "plain.html", "m")

on_view(t, filename) == handle_common(t, filename, "viewer.html", "v")

on_mdtext(t, filename) == Done(get_content(t, filename, TRUE), <<"get_content">>, t)

\* the on_<endpoint> methods class App defines; on_static was removed
Handlers ==
    {"home", "index", "index_mdplain", "dirtree", "search", "mdplain", "view", "mdtext"}

----------------------------------------------------------------------------
(* url_map and adapter.match(), server.py lines 64-74 and 100 *)

\* A request path is a fixed head followed by the part a <path:...> converter
\* would take.  Paths with doubled separators are left out: the routing layer
\* rewrites them before any rule is tried.
NoRest == {"/", "/v", "/m", "/api/tree", "/api/search", "/t", "/nosuch"}

WithRest == {"/v/", "/m/", "/t/", "/static/"}

\* <path:filename> takes one or more characters, the first not a separator
IsPathValue(rest) == rest # <<>> /\ rest[1] # "/"

Matched(endpoint, filename) == [endpoint |-> endpoint, filename |-> filename, exc |-> NoExc]

MatchFails(e) == [endpoint |-> "", filename |-> <<>>, exc |-> e]

Match(r) ==
    CASE r.head = "/" /\ r.rest = <<>> -> Matched("home", <<>>)
      [] r.head = "/static/" /\ IsPathValue(r.rest) -> Matched("static", r.rest)
      [] r.head = "/v/" /\ r.rest = <<>> -> Matched("index", <<>>)
      [] r.head = "/v/" /\ IsPathValue(r.rest) -> Matched("view", r.rest)
      [] r.head = "/m/" /\ r.rest = <<>> -> Matched("index_mdplain", <<>>)
      [] r.head = "/m/" /\ IsPathValue(r.rest) -> Matched("mdplain", r.rest)
      [] r.head = "/t/" /\ IsPathValue(r.rest) -> Matched("mdtext", r.rest)
      [] r.head = "/api/tree" /\ r.rest = <<>> -> Matched("dirtree", <<>>)
      [] r.head = "/api/search" /\ r.rest = <<>> -> Matched("search", <<>>)
      \* strict_slashes: "/v" and "/m" are the index rules without their slash
      [] r.head \in {"/v", "/m"} /\ r.rest = <<>> -> MatchFails(RequestRedirectExc)
      [] OTHER -> MatchFails(NotFoundExc)

----------------------------------------------------------------------------
(* App.dispatch, server.py lines 97-106 *)

\* handler = getattr(self, f"on_{endpoint}"); handler(request, **values)
CallHandler(t, d, r, m) ==
    CASE m.endpoint = "home" -> on_home(t)
      [] m.endpoint = "index" -> on_index(t, d)
      [] m.endpoint = "index_mdplain" -> on_index_mdplain(t, d)
      [] m.endpoint = "dirtree" -> on_dirtree(t)
      [] m.endpoint = "search" -> on_search(t, r.query)
      [] m.endpoint = "mdplain" -> on_mdplain(t, m.filename)
      [] m.endpoint = "view" -> on_view(t, m.filename)
      [] m.endpoint = "mdtext" -> on_mdtext(t, m.filename)
      [] OTHER -> Done(Raise(AttributeErrorExc), <<>>, t)

\* the body of the try block
TryBlock(t, d, r) ==
    LET m == Match(r)
    IN  IF m.exc # NoExc THEN Done(Raise(m.exc), <<>>, t)
        ELSE IF m.endpoint \notin Handlers THEN Done(Raise(AttributeErrorExc), <<>>, t)
        ELSE CallHandler(t, d, r, m)

Dispatched(out, log, t, e) == [out |-> out, calls |-> log, tree |-> t, raised |-> e]

\* the except clauses, applied to what the try block did
Catch(b) ==
    IF b.out.kind # "raise" THEN Dispatched(b.out, b.calls, b.tree, NoExc)
    \* except NotFound
    ELSE IF b.out.exc.exc = "NotFound"
         THEN Dispatched(DispatchNotFound, b.calls, b.tree, b.out.exc)
    \* except HTTPException as e: return e
    ELSE IF b.out.exc.exc \in HTTPExceptions
         THEN Dispatched(ExceptionResponse(b.out.exc), b.calls, b.tree, b.out.exc)
    \* anything else leaves dispatch
    ELSE Dispatched(b.out, b.calls, b.tree, b.out.exc)

dispatch_404_for_every_http_error(t, d, r) ==
    LET b == TryBlock(t, d, r)
    IN  IF b.out.kind # "raise" THEN Dispatched(b.out, b.calls, b.tree, NoExc)
        ELSE IF b.out.exc.exc \in HTTPExceptions
             THEN Dispatched(DispatchNotFound, b.calls, b.tree, b.out.exc)
        ELSE Dispatched(b.out, b.calls, b.tree, b.out.exc)

dispatch(t, d, r) == Catch(TryBlock(t, d, r))

----------------------------------------------------------------------------
(* WSGI plumbing, server.py lines 86-94 and 200-206 *)

\* the files the package ships under static/
StaticAssets == {<<"a">>}

\* SharedDataMiddleware answers /static/<file> itself when the file exists and
\* hands every other request to wsgi_app; wsgi_app calls dispatch and the
\* response; an exception leaving dispatch leaves wsgi_app and __call__ too
wsgi_app(t, d, r) ==
    IF r.head = "/static/" /\ r.rest \in StaticAssets
    THEN Dispatched(Response(200, "text/css", "static file", "", "", r.rest, <<>>),
                    <<>>, t, NoExc)
    ELSE dispatch(t, d, r)

----------------------------------------------------------------------------
(* Inputs *)

NoDoubleSlash(p) == \A i \in 1..(Len(p) - 1) : ~(p[i] = "/" /\ p[i + 1] = "/")

\* what a request can carry after its head
ReqPaths ==
    {p \in StringsUpTo(MaxReqLen) : p = <<>> \/ (p[1] # "/" /\ NoDoubleSlash(p))}

Requests ==
    [head : NoRest \ {"/api/search"}, rest : {<<>>}, query : {"absent"}]
    \cup [head : {"/api/search"}, rest : {<<>>}, query : Queries]
    \cup [head : WithRest, rest : ReqPaths, query : {"absent"}]

NoRequest == [head |-> "", rest |-> <<>>, query |-> "absent"]

\* the trees the provider serves: the shapes of the documented scenario
\* (docs -> [a.md, b.md], readme.md) and its neighbours
TreeDocs ==
    <<DirNode(<<"a">>, ChildList(<<FileNode(<<"a">>), FileNode(<<"b">>)>>)),
      FileNode(<<"b">>)>>

ServerTrees ==
    {<<>>,
     TreeDocs,
     <<DirNode(<<"a">>, ChildList(<<>>))>>,
     <<FileNode(<<"a">>), DirNode(<<"b">>, ChildAbsent)>>,
     <<FileNode(<<"b">>),
       DirNode(<<"a">>, ChildList(<<DirNode(<<"b">>, ChildList(<<FileNode(<<"a">>)>>))>>))>>}

----------------------------------------------------------------------------
(* The server, one request at a time *)

Init ==
    /\ disk \in ServerTrees
    /\ tree = disk
    /\ prevTree = disk
    /\ req = NoRequest
    /\ resp = NoResponse
    /\ calls = <<>>
    /\ raised = NoExc
    /\ fnPath = <<>>
    /\ fnResult = NotCalled
    /\ pc = "idle"
    /\ isf = FALSE
    /\ snaps = {}

\* App.__call__ on one request, to completion
Serve(r) ==
    \E o \in {wsgi_app(tree, disk, r)} :
        /\ req' = r
        /\ resp' = o.out
        /\ calls' = o.calls
        /\ raised' = o.raised
        /\ prevTree' = tree
        /\ tree' = o.tree
        /\ UNCHANGED <<disk, fnPath, fnResult, pc, isf, snaps>>

Routed(r, endpoint) == Match(r).exc = NoExc /\ Match(r).endpoint = endpoint

ReqHome == \E r \in Requests : Routed(r, "home") /\ Serve(r)

ReqIndex == \E r \in Requests : Routed(r, "index") /\ Serve(r)

ReqIndexMdplain == \E r \in Requests : Routed(r, "index_mdplain") /\ Serve(r)

ReqView == \E r \in Requests : Routed(r, "view") /\ Serve(r)

ReqMdplain == \E r \in Requests : Routed(r, "mdplain") /\ Serve(r)

ReqMdtext == \E r \in Requests : Routed(r, "mdtext") /\ Serve(r)

ReqDirtree == \E r \in Requests : Routed(r, "dirtree") /\ Serve(r)

ReqSearch == \E r \in Requests : Routed(r, "search") /\ Serve(r)

\* a shipped asset: the middleware answers, dispatch is never called
ReqStaticAsset ==
    \E r \in Requests : r.head = "/static/" /\ r.rest \in StaticAssets /\ Serve(r)

\* any other /static/ path falls through the middleware to dispatch
ReqStatic ==
    \E r \in Requests :
        Routed(r, "static") /\ r.rest \notin StaticAssets /\ Serve(r)

ReqSlashRedirect ==
    \E r \in Requests : Match(r).exc = RequestRedirectExc /\ Serve(r)

ReqUnmatched == \E r \in Requests : Match(r).exc = NotFoundExc /\ Serve(r)

\* files and directories come and go on the disk, outside the server
\* (pc = "done" is the instant a response is handed back: the next step
\* takes the next request)
DiskChange ==
    /\ pc # "done"
    /\ \E d \in ServerTrees \ {disk} : disk' = d
    /\ UNCHANGED <<tree, prevTree, req, resp, calls, raised, fnPath, fnResult, pc, isf, snaps>>

Next ==
    \/ ReqHome
    \/ ReqIndex
    \/ ReqIndexMdplain
    \/ ReqView
    \/ ReqMdplain
    \/ ReqMdtext
    \/ ReqDirtree
    \/ ReqSearch
    \/ ReqStaticAsset
    \/ ReqStatic
    \/ ReqSlashRedirect
    \/ ReqUnmatched
    \/ DiskChange

Spec == Init /\ [][Next]_vars

----------------------------------------------------------------------------
(* get_children and handle_common called directly, on every tree shape *)

InitFn ==
    /\ disk \in FnTrees
    /\ tree = disk
    /\ prevTree = disk
    /\ req = NoRequest
    /\ resp = NoResponse
    /\ calls = <<>>
    /\ raised = NoExc
    /\ fnPath = <<>>
    /\ fnResult = NotCalled
    /\ pc = "idle"
    /\ isf = FALSE
    /\ snaps = {}

\* the path strings get_children is called on
FnPaths == StringsUpTo(MaxPathLen)

\* nothing has been called on this tree yet
Fresh == fnResult = NotCalled /\ resp = NoResponse

CallGetChildren ==
    \E p \in FnPaths :
        /\ Fresh
        /\ fnPath' = p
        /\ fnResult' = get_children(tree, p)
        /\ resp' = NoResponse
        /\ calls' = <<>>
        /\ UNCHANGED <<disk, tree, prevTree, req, raised, pc, isf, snaps>>

CallHandleCommon ==
    \E p \in ReqPaths \ {<<>>}, ns \in {<<"viewer.html", "v">>, <<"plain.html", "m">>} :
        LET o == handle_common(tree, p, ns[1], ns[2])
        IN  /\ Fresh
            /\ fnPath' = p
            /\ fnResult' = NotCalled
            /\ resp' = o.out
            /\ calls' = o.calls
            /\ UNCHANGED <<disk, tree, prevTree, req, raised, pc, isf, snaps>>

NextFn == CallGetChildren \/ CallHandleCommon

SpecFn == InitFn /\ [][NextFn]_vars

----------------------------------------------------------------------------
(* Requests in flight together: a /v/<path> or /m/<path> request reads the  *)
(* provider twice, in handle_common (is_file) and in render_tree (get_tree) *)
(* or render_file (get_content); an index request of another client may     *)
(* refresh the snapshot between the two reads.                              *)

Template(endpoint) == IF endpoint = "view" THEN "viewer.html" ELSE "plain.html"

Prefix(endpoint) == IF endpoint = "view" THEN "v" ELSE "m"

\* handle_common up to its condition: self.state.is_file(filename)
ViewBegin ==
    \E r \in Requests :
        /\ pc \in {"idle", "done"}
        /\ Routed(r, "view") \/ Routed(r, "mdplain")
        /\ req' = r
        /\ isf' = is_file(tree, Match(r).filename)
        /\ pc' = "decided"
        /\ snaps' = {tree}
        /\ resp' = NoResponse
        /\ calls' = <<"is_file">>
        /\ raised' = NoExc
        /\ prevTree' = tree
        /\ UNCHANGED <<disk, tree, fnPath, fnResult>>

\* the branch handle_common took, then dispatch's except clauses
ViewEnd ==
    /\ pc = "decided"
    /\ LET m == Match(req)
           b == IF isf THEN render_file(tree, Template(m.endpoint), m.filename)
                ELSE render_tree(tree, Template(m.endpoint), Prefix(m.endpoint), m.filename)
           o == Catch(b)
       IN  /\ resp' = o.out
           /\ calls' = calls \o b.calls
           /\ raised' = o.raised
    /\ pc' = "done"
    /\ UNCHANGED <<disk, tree, prevTree, req, fnPath, fnResult, isf, snaps>>

\* on_index / on_index_mdplain of another client: self.state.refresh()
OtherIndex ==
    /\ pc # "done"
    /\ pc = "decided" => Cardinality(snaps) <= MaxRefreshes
    /\ tree' = refresh(disk)
    /\ snaps' = IF pc = "decided" THEN snaps \cup {refresh(disk)} ELSE snaps
    /\ UNCHANGED <<disk, prevTree, req, resp, calls, raised, fnPath, fnResult, pc, isf>>

NextConc == ViewBegin \/ ViewEnd \/ OtherIndex \/ DiskChange

SpecConc == Init /\ [][NextConc]_vars

----------------------------------------------------------------------------
(* Properties *)

Range(q) == {q[i] : i \in 1..Len(q)}

RECURSIVE NoNull(_)
\* the TreeNode data model: a child list is a sequence or is missing, never null
NoNull(items) ==
    \A i \in 1..Len(items) :
        items[i].children.kind # "null" /\ NoNull(items[i].children.items)

RECURSIVE JoinSlash(_)
JoinSlash(segs) ==
    IF segs = <<>> THEN <<>>
    ELSE IF Len(segs) = 1 THEN Head(segs)
    ELSE Head(segs) \o <<"/">> \o JoinSlash(Tail(segs))

GetChildrenCalled == fnResult # NotCalled

C2_DispatchTotal ==
    req # NoRequest =>
        /\ resp.kind # "raise"
        /\ Match(req).exc = NoExc => Match(req).endpoint \in Handlers
        /\ Match(req).exc = NotFoundExc => resp = DispatchNotFound

IsViewRequest == Routed(req, "view") \/ Routed(req, "mdplain")

OutFile ==
    /\ "get_content" \in Range(calls)
    /\ "get_children" \notin Range(calls)
    /\ resp.kind = "response" /\ resp.status = 200 /\ resp.mimetype = "text/html"
    /\ resp.tag = "file html" /\ resp.root = Match(req).filename

OutNotFound ==
    /\ calls = <<"is_file", "get_tree", "get_children">>
    /\ resp = TreeNotFound

OutListing ==
    /\ "get_content" \notin Range(calls)
    /\ calls = <<"is_file", "get_tree", "get_children", "tree.md", "MarkdownParser.parse",
                 Template(Match(req).endpoint)>>
    /\ resp.kind = "response" /\ resp.status = 200 /\ resp.mimetype = "text/html"
    /\ resp.tag = "listing"

\* C3: a /v/<path> or /m/<path> request asks is_file first; a file is fetched
\* and rendered without the resolver; otherwise the path is resolved, a failed
\* resolution gives the 404 response with no render call, a successful one the
\* listing; exactly one of the three happens.
C3_FileThenDirectory ==
    IsViewRequest =>
        LET f == Match(req).filename
        IN  /\ calls # <<>> /\ calls[1] = "is_file"
            /\ is_file(prevTree, f) => OutFile
            /\ (~is_file(prevTree, f) /\ get_children(prevTree, f) = NoneResult) => OutNotFound
            /\ (~is_file(prevTree, f) /\ get_children(prevTree, f) # NoneResult) =>
                    (OutListing /\ ListResult(resp.items) = get_children(prevTree, f))
            /\ Cardinality({o \in {"file", "notfound", "listing"} :
                    \/ o = "file" /\ OutFile
                    \/ o = "notfound" /\ OutNotFound
                    \/ o = "listing" /\ OutListing}) = 1

\* /v/b/a where b is a file: not a file path, resolution fails, nothing rendered
C3_Witness ==
    /\ Routed(req, "view")
    /\ Len(Parts(req.rest)) = 2
    /\ OutNotFound
    /\ \E n \in NodesAt(prevTree, <<Head(Parts(req.rest))>>) : n.type = "file"

IsIndexRequest == Routed(req, "index") \/ Routed(req, "index_mdplain")

Positions(q, x) == {i \in 1..Len(q) : q[i] = x}

\* C4: refresh is invoked only by /v/ and /m/, once per such request and
\* before the tree is read, so the root listing is the refreshed snapshot;
\* every other request never refreshes and leaves the snapshot as it was.
C4_RefreshOnlyOnIndex ==
    req # NoRequest =>
        IF IsIndexRequest
        THEN /\ Cardinality(Positions(calls, "refresh")) = 1
             /\ \A i \in Positions(calls, "refresh"), j \in Positions(calls, "get_tree") : i < j
             /\ Positions(calls, "get_tree") # {}
             /\ resp.status = 200 /\ resp.tag = "listing" /\ resp.items = tree
        ELSE "refresh" \notin Range(calls) /\ tree = prevTree

\* an index request that found the disk changed and lists the new snapshot
C4_Witness ==
    /\ IsIndexRequest
    /\ tree # prevTree
    /\ resp.items = tree
    /\ tree # <<>>

IsEmptyDir(n) == n.type = "directory" /\ n.children.items = <<>>

AddressesEmptyDir ==
    \/ Parts(fnPath) = <<>> /\ tree = <<>>
    \/ Parts(fnPath) # <<>> /\ \E n \in NodesAt(tree, Parts(fnPath)) : IsEmptyDir(n)

\* C5: an existing directory with no children (list empty, missing or null),
\* and the root of an empty tree, resolve to the empty sequence, not None, and
\* a /v/<path> or /m/<path> request for it is answered with a 200 HTML listing
\* of no entries, not with the 404 response.
C5_EmptyIsNotAbsent ==
    AddressesEmptyDir =>
        /\ GetChildrenCalled => fnResult = ListResult(<<>>)
        /\ resp # NoResponse =>
                /\ resp.kind = "response" /\ resp.status = 200
                /\ resp.mimetype = "text/html" /\ resp.tag = "listing"
                /\ resp.items = <<>>

\* handle_common answered 200 with an empty listing for a directory whose child list is null
C5_Witness ==
    /\ resp.kind = "response" /\ resp.status = 200 /\ resp.tag = "listing"
    /\ resp.items = <<>>
    /\ Parts(fnPath) # <<>>
    /\ \E n \in NodesAt(tree, Parts(fnPath)) : n.type = "directory" /\ n.children.kind = "null"

\* C6: the result depends only on the non-empty segments of the path: "" and
\* "/" give the root list, and a path with leading, trailing or doubled
\* separators ("a//b/", "/a/b", "a/b/") gives what its segments joined by
\* single separators ("a/b") give.
C6_SeparatorsIgnored ==
    GetChildrenCalled =>
        /\ fnPath \in {<<>>, <<"/">>} => fnResult = ListResult(tree)
        /\ fnResult = get_children(tree, JoinSlash(Parts(fnPath)))
        /\ \A q \in {<<"a", "/", "/", "b", "/">>, <<"/", "a", "/", "b">>, <<"a", "/", "b", "/">>} :
                fnPath = q => fnResult = get_children(tree, <<"a", "/", "b">>)

\* "a//b/" resolved to the children of the directory a/b
C6_Witness ==
    /\ fnPath = <<"a", "/", "/", "b", "/">>
    /\ fnResult.kind = "list"
    /\ \E n \in NodesAt(tree, <<<<"a">>, <<"b">>>>) : n.type = "directory"

RaisedHTTP == raised.exc \in HTTPExceptions

\* C7 as stated: every HTTP-status-carrying error raised while a matched route
\* is handled, a NotFound of get_content included, is returned with its own
\* status and its own body.
C7_PassedThroughUnchanged ==
    (Match(req).exc = NoExc /\ RaisedHTTP) =>
        /\ resp.kind = "response"
        /\ resp.status = raised.status
        /\ resp.mimetype = raised.mimetype
        /\ resp.tag = raised.tag

\* C7 amended: an HTTP-status-carrying error other than NotFound is returned
\* with its own status and body; a NotFound, raised by the match or by a
\* handler, is replaced by the 404 text/plain "Not found" response.
C7_PassedThroughExceptNotFound ==
    RaisedHTTP =>
        IF raised.exc = "NotFound" THEN resp = DispatchNotFound
        ELSE resp = ExceptionResponse(raised)

\* the provider rejected a search query and its 400 came back as raised
C7_Witness ==
    /\ Routed(req, "search")
    /\ raised = BadRequestExc
    /\ resp.status = 400 /\ resp.tag = BadRequestExc.tag

NotFoundCase ==
    \/ req # NoRequest /\ Match(req).exc = NotFoundExc
    \/ /\ IsViewRequest
       /\ ~is_file(prevTree, Match(req).filename)
       /\ get_children(prevTree, Match(req).filename) = NoneResult
    \/ Routed(req, "mdtext") /\ ~is_file(prevTree, Match(req).filename)

SameNotFoundShape ==
    NotFoundCase =>
        /\ resp.kind = "response" /\ resp.status = 404
        /\ resp.mimetype = "text/plain" /\ resp.tag = "Not found"

\* C9 as stated: every not-found outcome is 404 text/plain "Not found", and a
\* text/html body comes only with status 200.
C9_HtmlOnlyOnSuccess ==
    /\ SameNotFoundShape
    /\ resp.mimetype = "text/html" => resp.status = 200

\* C9 amended: every not-found outcome is 404 text/plain "Not found"; a
\* text/html body comes with status 200 on a success path, or is the own body
\* of an HTTP error (other than NotFound) that dispatch passes through.
C9_HtmlOnSuccessOrPassThrough ==
    /\ SameNotFoundShape
    /\ resp.mimetype = "text/html" =>
            \/ resp.status = 200 /\ resp.tag \in {"listing", "file html"}
            \/ RaisedHTTP /\ raised.exc # "NotFound" /\ resp = ExceptionResponse(raised)

\* /v/<path> for a path that is neither a file nor a directory: 404 text/plain
C9_Witness ==
    /\ Routed(req, "view")
    /\ ~is_file(prevTree, Match(req).filename)
    /\ get_children(prevTree, Match(req).filename) = NoneResult
    /\ resp.status = 404 /\ resp.mimetype = "text/plain" /\ resp.tag = "Not found"

====
